---- MODULE Spec2Model ----
(***************************************************************************)
(* OrganizeX: the React front end (App, Dashboard, QuestTracker,           *)
(* FileOrganizer, DuplicateDetector, RewardsPanel) and the API client,     *)
(* together with the engine the client talks to (duplicate grouping,       *)
(* organization planning, execution).                                      *)
(* The engine's code is not among the sources; it is modelled from the     *)
(* specification's sections 3 to 7.                                        *)
(***************************************************************************)
EXTENDS Integers, Sequences, FiniteSets, Bags, TLC

\* ------------------------------------------------------------------ bounds
NFiles == 3       \* files of the scanned tree that the duplicate engine sees
MaxSize == 2      \* file sizes are 1..MaxSize
MaxHash == 1      \* content hashes are 1..MaxHash
MaxTime == 2      \* modified times are 1..MaxTime
MaxInFlight == 2  \* requests that may be pending at once
MaxXp == 10       \* no further request is started once totalXp exceeds this
MaxLoadXp == 0    \* the xp of the user the server returns is 0..MaxLoadXp
NOrgFiles == 4    \* files of the organized tree
MaxAttempts == 1  \* numeric suffixes the planner tries before skip-collision
MaxGroups == 2    \* groups in a list given to getTotalWastedSpace on its own

Files == 1..NFiles
OrgFiles == 1..NOrgFiles

\* ------------------------------------------------------------------ state
VARIABLES
    size, hash, mtime,      \* FileRecord attributes, fixed at scan time
    tieBreak,               \* the engine's tie-break among equal modified times
    present,                \* the files that exist on disk
    user,                   \* App: user state (xp, totalXp)
    isLoading,              \* App: isLoading
    activeTab,              \* App: activeTab
    duplicates,             \* DuplicateDetector: duplicates
    ddIsScanning,           \* DuplicateDetector: isScanning
    scanPath,               \* DuplicateDetector: scanPath
    selectedDuplicates,     \* DuplicateDetector: selectedDuplicates
    scanProgress,           \* DuplicateDetector: scanProgress
    timerLeaked,            \* a progress interval that was never cleared is running
    tree,                   \* the place of every file of the organized tree
    overwritten,            \* files a move destroyed that its plan had not placed
    selectedFolder,         \* FileOrganizer: selectedFolder
    scanResults,            \* FileOrganizer: scanResults
    foIsScanning,           \* FileOrganizer: isScanning
    isOrganizing,           \* FileOrganizer: isOrganizing
    organizationRules,      \* FileOrganizer: organizationRules
    requestedFolder,        \* the folder whose scan was requested last (history)
    recentActivity,         \* Dashboard: recentActivity (the xp of each entry)
    quests,                 \* QuestTracker: quests
    activeCategory,         \* QuestTracker: activeCategory
    qtIsLoading,            \* QuestTracker: isLoading
    rpIsLoading,            \* RewardsPanel: isLoading
    inflight,               \* bag of requests sent and not yet settled
    shown,                  \* the value rendered by the function under check
    last                    \* the handler step that ran last (history)

vars == <<size, hash, mtime, tieBreak, present, user, isLoading, activeTab, duplicates,
          ddIsScanning, scanPath, selectedDuplicates, scanProgress, timerLeaked,
          tree, overwritten, selectedFolder, scanResults, foIsScanning,
          isOrganizing, organizationRules, requestedFolder, recentActivity,
          quests, activeCategory, qtIsLoading, rpIsLoading, inflight, shown, last>>

envVars == <<size, hash, mtime, tieBreak>>
ddVars == <<duplicates, ddIsScanning, scanPath, selectedDuplicates, scanProgress,
            timerLeaked>>
orgVars == <<tree, overwritten>>
foVars == <<selectedFolder, scanResults, foIsScanning, isOrganizing,
            organizationRules, requestedFolder>>
qtVars == <<quests, activeCategory, qtIsLoading, rpIsLoading>>

\* ------------------------------------------------------- the scanned tree
\* Files 1 and 2 are "downloads/a" and "downloads/b", the others are
\* "pictures/c", "pictures/d", ...: the lexical order of the paths is the
\* order of the numbers, and the pictures paths are one character shorter.
Dir(f) == IF f <= 2 THEN "downloads" ELSE "pictures"
PathLen(f) == IF f <= 2 THEN 11 ELSE 10
LexBefore(f, g) == f < g

Under(f, path) == path = "/" \/ Dir(f) = path

\* the paths the text field of the duplicate detector is given
TextPaths == {"", "downloads"}
\* quickScanOptions
quickScanOptions == {"downloads", "pictures", "documents", "/"}

\* ---------------------------------------------- engine: duplicate grouping
\* 4.3 stage 1: files whose size collides with another file's
SizeCandidates(S) == {f \in S : \E g \in S \ {f} : size[g] = size[f]}

\* 4.3 stage 2: confirmed duplicates share size and content hash
SameFingerprint(f, g) == size[f] = size[g] /\ hash[f] = hash[g]

\* The order of a group's members.  Section 3 orders them by modifiedTime,
\* ties broken by the lexical order of the path; section 4.4 breaks ties by
\* the shortest path first and then lexically.  The engine follows one of the
\* two, fixed at its construction.
TieBreaks == {"lexical", "shortestThenLexical"}
TieBefore(f, g) ==
    IF tieBreak = "lexical" THEN LexBefore(f, g)
    ELSE \/ PathLen(f) < PathLen(g)
         \/ PathLen(f) = PathLen(g) /\ LexBefore(f, g)

BeforeWrong(f, g) ==
    \/ mtime[f] > mtime[g]
    \/ mtime[f] = mtime[g] /\ TieBefore(f, g)
Before(f, g) ==
    \/ mtime[f] < mtime[g]
    \/ mtime[f] = mtime[g] /\ TieBefore(f, g)

RECURSIVE SortFiles(_)
SortFiles(S) ==
    IF S = {} THEN <<>>
    ELSE LET m == CHOOSE x \in S : \A y \in S \ {x} : Before(x, y)
         IN  <<m>> \o SortFiles(S \ {m})

\* the fingerprint classes of S with at least two members, and the slip that
\* groups every file by its hash alone
DuplicateClassesWrong(S) ==
    LET cls(f) == {g \in S : hash[f] = hash[g]}
    IN  {cls(f) : f \in {x \in S : Cardinality(cls(x)) >= 2}}
DuplicateClasses(S) ==
    LET C == SizeCandidates(S)
        cls(f) == {g \in C : SameFingerprint(f, g)}
    IN  {cls(f) : f \in {x \in C : Cardinality(cls(x)) >= 2}}

\* A DuplicateGroup: id (the least member's number names the group) and the
\* members in canonical order.  A file record is its number: id and path.
Group(c) == [id |-> CHOOSE f \in c : \A g \in c : f <= g, files |-> SortFiles(c)]

RECURSIVE GroupSeq(_)
GroupSeq(CS) ==
    IF CS = {} THEN <<>>
    ELSE LET c == CHOOSE x \in CS : \A y \in CS : Group(x).id <= Group(y).id
         IN  <<Group(c)>> \o GroupSeq(CS \ {c})

findDuplicates(path) ==
    GroupSeq(DuplicateClasses({f \in present : Under(f, path)}))

\* ------------------------------------------------------ the organized tree
\* Files 1..3 are all named report.pdf, the others photo.png.  A file is at a
\* place, a directory of the folder "downloads" and the numeric suffix its
\* name carries there ("Documents", 1 is downloads/Documents/report_1.pdf), or
\* it is gone.  The other folders hold no files.
Base(f) == IF f <= 3 THEN "report" ELSE "photo"
Ext(f) == IF f <= 3 THEN ".pdf" ELSE ".png"
Place(d, k) == [dir |-> d, suf |-> k]
Gone == Place("gone", 0)
Null == [path |-> "(null)", fileTypes |-> {}]

\* FileOrganizer.fileTypes and the ten names of the category table
fileTypes ==
    [Images |-> {".jpg", ".jpeg", ".png", ".gif", ".bmp", ".svg", ".webp"},
     Documents |-> {".pdf", ".doc", ".docx", ".txt", ".rtf", ".odt"},
     Spreadsheets |-> {".xls", ".xlsx", ".csv", ".ods"},
     Presentations |-> {".ppt", ".pptx", ".odp"},
     Videos |-> {".mp4", ".avi", ".mkv", ".mov", ".wmv", ".flv"},
     Audio |-> {".mp3", ".wav", ".flac", ".aac", ".ogg"},
     Archives |-> {".zip", ".rar", ".7z", ".tar", ".gz"},
     Code |-> {".js", ".py", ".html", ".css", ".java", ".cpp", ".c"},
     Executables |-> {".exe", ".msi", ".dmg", ".pkg", ".deb", ".rpm"}]
CategoryNames == DOMAIN fileTypes \cup {"Other"}

\* 4.2 Classifier: extension lookup, unmatched extensions are "Other"
classifyWrong(ext) == ext
classify(ext) ==
    IF \E c \in DOMAIN fileTypes : ext \in fileTypes[c]
    THEN CHOOSE c \in DOMAIN fileTypes : ext \in fileTypes[c]
    ELSE "Other"
Category(f) == classify(Ext(f))

\* the trees a run may start from: file 1 lies at the top, file 2 in a
\* subdirectory or already in Documents, file 3 in Documents under either
\* name or nowhere, a photo at the top or already in Images
StartPlaces(f) ==
    IF f = 1 THEN {Place("top", 0)}
    ELSE IF f = 2 THEN {Place("sub", 0), Place("Documents", 0)}
    ELSE IF f = 3 THEN {Place("Documents", 0), Place("Documents", 1), Gone}
    ELSE {Place("top", f - 4), Place("Images", f - 4)}
SameName(f, g) == Base(f) = Base(g) /\ Ext(f) = Ext(g)
StartTrees ==
    {t \in [OrgFiles -> UNION {StartPlaces(f) : f \in OrgFiles}] :
        /\ \A f \in OrgFiles : t[f] \in StartPlaces(f)
        /\ \A f, g \in OrgFiles :
              (f # g /\ SameName(f, g) /\ t[f] # Gone) => t[f] # t[g]}

\* another file of the same name is at the place
Occupied(t, f, p) == \E g \in OrgFiles \ {f} : SameName(g, f) /\ t[g] = p
\* 4.1 Path Walker: the files under a folder
UnderFolder(t, path) ==
    IF path = "downloads" THEN {f \in OrgFiles : t[f] # Gone} ELSE {}

\* 6 scan: the category summary of a folder
scan(t, path) == [path |-> path, fileTypes |-> {Category(f) : f \in UnderFolder(t, path)}]

\* ------------------------------------- engine: planning and execution
RuleEnabledWrong(rules, cat) == cat \notin DOMAIN rules \/ rules[cat]
RuleEnabled(rules, cat) == cat \in DOMAIN rules /\ rules[cat]

\* 4.5 collision policy: the first free numeric suffix, up to the cap
FreeSuffixes(t, f, cat) ==
    {k \in 1..MaxAttempts : ~Occupied(t, f, Place(cat, k))}

PlannedMove(t, f, rules) ==
    LET cat == Category(f)
        src == t[f]
        stay(a) == [action |-> a, source |-> src, destination |-> src]
        free == FreeSuffixes(t, f, cat)
    IN  IF ~RuleEnabled(rules, cat) THEN stay("skip-disabled-category")
        ELSE IF src.dir = cat THEN stay("no-op")
        ELSE IF ~Occupied(t, f, Place(cat, src.suf))
        THEN [action |-> "move", source |-> src, destination |-> Place(cat, src.suf)]
        ELSE IF src.suf = 0 /\ free # {}
        THEN [action |-> "move", source |-> src,
              destination |-> Place(cat, CHOOSE k \in free : \A j \in free : k <= j)]
        ELSE stay("skip-collision")

\* 4.5 plan: one PlannedMove for every FileRecord of the snapshot
planOrganization(t, path, rules) ==
    [f \in UnderFolder(t, path) |-> PlannedMove(t, f, rules)]

\* 4.6 the executor re-checks the destination right before it moves
MayMoveWrong(t, f, p) == TRUE
MayMove(t, f, p) == ~Occupied(t, f, p)

NewRun(t) == [tree |-> t, moved |-> {}, lost |-> {}, succeeded |-> 0,
              skipped |-> 0, failed |-> 0, errors |-> {}]

\* 4.6 one planned action: a failure is recorded and the batch goes on
ExecuteItem(f, pm, st) ==
    IF pm.action = "skip-collision"
    THEN [st EXCEPT !.skipped = @ + 1, !.errors = @ \cup {f}]
    ELSE IF pm.action # "move" \/ st.tree[f] = pm.destination
    THEN [st EXCEPT !.skipped = @ + 1]
    ELSE IF st.tree[f] # pm.source \/ ~MayMove(st.tree, f, pm.destination)
    THEN [st EXCEPT !.failed = @ + 1, !.errors = @ \cup {f}]
    ELSE LET hit == {g \in OrgFiles \ {f} :
                        SameName(g, f) /\ st.tree[g] = pm.destination}
         IN  [st EXCEPT !.tree = [g \in OrgFiles |->
                                    IF g = f THEN pm.destination
                                    ELSE IF g \in hit THEN Gone ELSE @[g]],
                        !.moved = @ \cup {f},
                        !.lost = @ \cup (hit \ st.moved),
                        !.succeeded = @ + 1]

RECURSIVE ExecuteFrom(_, _, _)
ExecuteFrom(f, plan, st) ==
    IF f > NOrgFiles THEN st
    ELSE ExecuteFrom(f + 1, plan,
                     IF f \in DOMAIN plan THEN ExecuteItem(f, plan[f], st) ELSE st)

\* 4.6 execute(plan) on the tree as it is when execution starts
execute(plan, t) == ExecuteFrom(1, plan, NewRun(t))

\* 5: the tree is externally mutable; between planning and execution file 3
\* may appear in Documents
MidTrees(t) ==
    {t} \cup {[t EXCEPT ![3] = p] :
                p \in {q \in {Place("Documents", 0), Place("Documents", 1)} :
                          t[3] = Gone /\ ~Occupied(t, 3, q)}}

\* every category enabled: the rules of a quick sort
AllRules == [c \in CategoryNames |-> TRUE]

\* ------------------------------------------------------------- API client
\* APIService.scanDuplicates: an empty path is sent as '/'
scanDuplicatesPath(path) == IF path = "" THEN "/" ELSE path

NoFiles == {}
\* the initial quests of QuestTracker (useState), also getQuests' fallback
NoQuests == [daily |-> <<>>, weekly |-> <<>>, achievements |-> <<>>]
\* the initial user of App (useState), also getUserData's fallback
defaultUser == [level |-> 1, xp |-> 0, totalXp |-> 0, streak |-> 0,
                badges |-> <<>>, completedQuests |-> 0]
\* the tabs of the navigation that issue engine requests
Tabs == {"dashboard", "organizer", "duplicates"}
\* the tabs of the navigation
Navigation == Tabs \cup {"quests", "rewards"}
ScanKinds == {"scanDuplicates", "scanFolder"}
\* the component whose handler awaits a request of this kind
Owner(kind) ==
    CASE kind \in {"scanDuplicates", "deleteDuplicateFiles"} -> "duplicates"
      [] kind \in {"scanFolder", "organizeFiles"} -> "organizer"
      [] kind \in {"quickAction"} -> "dashboard"
      [] kind \in {"getQuests", "completeQuest"} -> "quests"
      [] kind \in {"loadRewardsData"} -> "rewards"
      [] OTHER -> "app"
\* a request in flight, with what the handler awaiting it has captured: u is
\* the user prop of the render the handler was created in (defaultUser when
\* the handler does not read it)
NoRules == <<>>
\* the quest of a request that completes none
NoQuest == [id |-> 0, category |-> ""]
Req(kind, path, files, u) ==
    [kind |-> kind, live |-> TRUE, path |-> path, files |-> files, u |-> u,
     rules |-> NoRules, chained |-> FALSE, xp |-> 0, quest |-> NoQuest]

RECURSIVE SumCopies(_)
\* the number of copies in flight of the requests in S
SumCopies(S) ==
    IF S = {} THEN 0
    ELSE LET r == CHOOSE x \in S : TRUE
         IN  CopiesIn(r, inflight) + SumCopies(S \ {r})

Pending(kind) == {r \in BagToSet(inflight) : r.kind = kind}
InFlightCount == BagCardinality(inflight)
Send(r) == inflight' = inflight (+) SetToBag({r})
Settle(r) == inflight' = inflight (-) SetToBag({r})
CanSend == InFlightCount < MaxInFlight /\ user.totalXp <= MaxXp

\* --------------------------------------------------------- shared helpers
SeqToSet(s) == {s[i] : i \in 1..Len(s)}

RECURSIVE SumSize(_)
SumSize(S) ==
    IF S = {} THEN 0
    ELSE LET f == CHOOSE x \in S : TRUE IN size[f] + SumSize(S \ {f})

\* files.filter(file => !filesToDelete.some(deleted => deleted.path === file.path))
\* and the slip that drops the negation
RECURSIVE FilterSeqWrong(_, _)
FilterSeqWrong(s, D) ==
    IF s = <<>> THEN <<>>
    ELSE (IF Head(s) \in D THEN <<Head(s)>> ELSE <<>>) \o FilterSeqWrong(Tail(s), D)

RECURSIVE FilterSeq(_, _)
FilterSeq(s, D) ==
    IF s = <<>> THEN <<>>
    ELSE (IF Head(s) \in D THEN <<>> ELSE <<Head(s)>>) \o FilterSeq(Tail(s), D)

Min(a, b) == IF a < b THEN a ELSE b

\* files.reduce((sum, file) => sum + file.size, 0)
RECURSIVE SumFileSizes(_)
SumFileSizes(fileSeq) ==
    IF fileSeq = <<>> THEN 0
    ELSE size[Head(fileSeq)] + SumFileSizes(Tail(fileSeq))

\* files.slice(1), and the slip files.slice(0)
Slice1Wrong(s) == s
Slice1(s) == IF s = <<>> THEN <<>> ELSE Tail(s)

\* getTotalWastedSpace: every file but the first of each group
RECURSIVE getTotalWastedSpace(_)
getTotalWastedSpace(dups) ==
    IF dups = <<>> THEN 0
    ELSE SumFileSizes(Slice1(Head(dups).files)) + getTotalWastedSpace(Tail(dups))

\* the first file of every held group (the one tagged Original), the other
\* files of the held groups, and all of them
Canonicals(dups) == {dups[i].files[1] : i \in {j \in 1..Len(dups) : dups[j].files # <<>>}}
NonCanonicals(dups) ==
    UNION {{dups[i].files[j] : j \in 2..Len(dups[i].files)} : i \in 1..Len(dups)}
HeldFiles(dups) == UNION {SeqToSet(dups[i].files) : i \in 1..Len(dups)}

\* the value of the history variable: the handler step that ran last, what
\* it was about (arg) and what was held before it ran (before)
Did(op, files) == [op |-> op, arg |-> files, before |-> duplicates]
NotShown == [done |-> FALSE, value |-> 0]
\* a step that no property needs to tell from the others
Other == [op |-> "other", arg |-> NoFiles, before |-> <<>>]

\* ------------------------------------------------------------------- Init
\* the state of App and of its components after construction
InitUI ==
    /\ present = Files
    /\ overwritten = {}
    /\ user = defaultUser
    /\ isLoading = TRUE
    /\ activeTab = "dashboard"
    /\ duplicates = <<>>
    /\ ddIsScanning = FALSE
    /\ scanPath = ""
    /\ selectedDuplicates = {}
    /\ scanProgress = 0
    /\ timerLeaked = FALSE
    /\ selectedFolder = ""
    /\ scanResults = Null
    /\ foIsScanning = FALSE
    /\ isOrganizing = FALSE
    /\ organizationRules = NoRules
    /\ requestedFolder = ""
    /\ recentActivity = <<>>
    /\ quests = NoQuests
    /\ activeCategory = "daily"
    /\ qtIsLoading = TRUE
    /\ rpIsLoading = TRUE
    /\ inflight = SetToBag({Req("getUserData", "", NoFiles, defaultUser)})
    /\ shown = NotShown
    /\ last = Other

\* the files the duplicate engine sees: any attributes, or one tree of three
\* copies of one content
AnyFiles ==
    /\ size \in [Files -> 1..MaxSize]
    /\ hash \in [Files -> 1..MaxHash]
    /\ mtime \in [Files -> 1..MaxTime]
    /\ tieBreak \in TieBreaks
OneFiles ==
    /\ size = [f \in Files |-> 1]
    /\ hash = [f \in Files |-> 1]
    /\ mtime = [f \in Files |-> IF f = 2 THEN MaxTime ELSE 1]
    /\ tieBreak = "shortestThenLexical"

\* the organized tree: any of the start trees, or the one where nothing has
\* been organized yet
AnyTree == tree \in StartTrees
OneTree ==
    tree = [f \in OrgFiles |-> IF f = 3 THEN Gone
                              ELSE IF f = 2 THEN Place("sub", 0)
                              ELSE IF f = 1 THEN Place("top", 0)
                              ELSE Place("top", f - 4)]

Init == OneFiles /\ OneTree /\ InitUI
InitDuplicates == AnyFiles /\ OneTree /\ InitUI
InitOrganizer == OneFiles /\ AnyTree /\ InitUI

\* -------------------------------------------------------------------- App
\* loadUserData: getUserData never rejects (it falls back to the default user)
loadUserData ==
    /\ isLoading
    /\ \E r \in Pending("getUserData") :
         /\ Settle(r)
         /\ \E x \in 0..MaxLoadXp :
              user' = [defaultUser EXCEPT !.xp = x, !.totalXp = x]
    /\ isLoading' = FALSE
    /\ last' = Other
    /\ UNCHANGED <<envVars, qtVars, shown, orgVars, foVars, recentActivity, present, activeTab, ddVars>>

\* updateUserData: setUser(prev => ({...prev, ...newData}))
updateUserData(prev, newData) ==
    [k \in DOMAIN prev \cup DOMAIN newData |->
        IF k \in DOMAIN newData THEN newData[k] ELSE prev[k]]

\* the requests of a component that is unmounted settle on a dead instance;
\* of a scan that settles on a dead instance nothing is read, its path is
\* dropped
Orphaned(comp) ==
    LET S == BagToSet(inflight)
        M(r) == IF Owner(r.kind) # comp THEN r
                ELSE IF r.kind \in ScanKinds
                     THEN [r EXCEPT !.live = FALSE, !.path = "(unread)"]
                     ELSE [r EXCEPT !.live = FALSE]
        T == {M(r) : r \in S}
    IN  [t \in T |-> SumCopies({r \in S : M(r) = t})]

\* the requests a component sends from its useEffect when it is mounted
\* (QuestTracker: loadQuests; RewardsPanel: loadRewardsData)
Mounted(t) ==
    CASE t = "quests" -> SetToBag({Req("getQuests", "", NoFiles, defaultUser)})
      [] t = "rewards" -> SetToBag({Req("loadRewardsData", "", NoFiles, defaultUser)})
      [] OTHER -> EmptyBag

\* the nav buttons: setActiveTab; the component that was shown is unmounted
\* and the one shown next starts from its initial state
setActiveTab(t) ==
    /\ ~isLoading
    /\ t \in Navigation \ {activeTab}
    /\ Mounted(t) # EmptyBag => InFlightCount < MaxInFlight
    /\ activeTab' = t
    /\ inflight' = Orphaned(activeTab) (+) Mounted(t)
    /\ duplicates' = <<>>
    /\ ddIsScanning' = FALSE
    /\ scanPath' = ""
    /\ selectedDuplicates' = {}
    /\ scanProgress' = 0
    /\ timerLeaked' = FALSE
    /\ selectedFolder' = ""
    /\ scanResults' = Null
    /\ foIsScanning' = FALSE
    /\ isOrganizing' = FALSE
    /\ organizationRules' = NoRules
    /\ requestedFolder' = ""
    /\ recentActivity' = <<>>
    /\ quests' = NoQuests
    /\ activeCategory' = "daily"
    /\ qtIsLoading' = TRUE
    /\ rpIsLoading' = TRUE
    /\ last' = Other
    /\ UNCHANGED <<envVars, shown, orgVars, present, user, isLoading>>

\* ------------------------------------------------------ DuplicateDetector
Shown == ~isLoading /\ activeTab = "duplicates"

\* the key of a checkbox, `${duplicateId}-${fileId}`, and key.split('-');
\* the ids are strings without '-', so the two parts are the two ids
KeyOf(duplicateId, fileId) == <<duplicateId, fileId>>
ParseKey(key) == [duplicateId |-> key[1], fileId |-> key[2]]

\* duplicates.find(d => d.id === duplicateId)?.files.find(f => f.id === fileId)
FindFile(dups, key) ==
    LET k == ParseKey(key)
        gi == {i \in 1..Len(dups) : dups[i].id = k.duplicateId}
    IN  IF gi = {} THEN {}
        ELSE LET d == dups[CHOOSE i \in gi : \A j \in gi : i <= j]
             IN  {f \in SeqToSet(d.files) : f = k.fileId}

\* the files of the selected keys that are still found (filter(Boolean))
filesToDelete(dups, selected) == UNION {FindFile(dups, key) : key \in selected}

\* onChange of the path field
setScanPath(p) ==
    /\ Shown
    /\ p \in TextPaths \ {scanPath}
    /\ scanPath' = p
    /\ last' = Other
    /\ UNCHANGED <<envVars, qtVars, shown, orgVars, foVars, recentActivity, present, user, isLoading, activeTab, duplicates,
                   ddIsScanning, selectedDuplicates, scanProgress, timerLeaked,
                   inflight>>

\* scanForDuplicates up to its await: a quick-scan button, or the Scan button
\* (path = scanPath), each disabled while isScanning
scanForDuplicates(path) ==
    /\ Shown
    /\ ~ddIsScanning
    /\ path \in quickScanOptions \/ (path = scanPath /\ scanPath # "")
    /\ CanSend
    /\ ddIsScanning' = TRUE
    /\ scanProgress' = 0
    /\ duplicates' = <<>>
    /\ Send(Req("scanDuplicates", scanDuplicatesPath(path), NoFiles, defaultUser))
    /\ last' = Other
    /\ UNCHANGED <<envVars, qtVars, shown, orgVars, foVars, recentActivity, present, user, isLoading, activeTab, scanPath,
                   selectedDuplicates, timerLeaked>>

\* the interval callback: setScanProgress(prev => Math.min(prev + 10, 90));
\* it changes scanProgress alone
progressTick ==
    /\ Shown
    /\ timerLeaked \/ \E r \in Pending("scanDuplicates") : r.live
    /\ scanProgress' = Min(scanProgress + 10, 90)
    /\ last' = Other
    /\ UNCHANGED <<envVars, qtVars, shown, orgVars, foVars, recentActivity, present, user, isLoading, activeTab, duplicates,
                   ddIsScanning, scanPath, selectedDuplicates, timerLeaked,
                   inflight>>

\* scanForDuplicates after its await, the request resolved
scanDuplicatesResolved ==
    \E r \in Pending("scanDuplicates") :
        /\ Settle(r)
        /\ IF r.live
           THEN /\ scanProgress' = 100
                /\ duplicates' = findDuplicates(r.path)
                /\ ddIsScanning' = FALSE
           ELSE UNCHANGED <<scanProgress, duplicates, ddIsScanning>>
        /\ last' = Did("scanDuplicatesResolved", NoFiles)
        /\ UNCHANGED <<envVars, qtVars, shown, orgVars, foVars, recentActivity, present, user, isLoading, activeTab, scanPath,
                       selectedDuplicates, timerLeaked>>

\* scanForDuplicates after its await, the request rejected: the catch and the
\* finally run, clearInterval is skipped
scanDuplicatesRejected ==
    \E r \in Pending("scanDuplicates") :
        /\ Settle(r)
        /\ IF r.live
           THEN ddIsScanning' = FALSE /\ timerLeaked' = TRUE
           ELSE UNCHANGED <<ddIsScanning, timerLeaked>>
        /\ last' = Other
        /\ UNCHANGED <<envVars, qtVars, shown, orgVars, foVars, recentActivity, present, user, isLoading, activeTab, duplicates,
                       scanPath, selectedDuplicates, scanProgress>>

\* the checkboxes that are rendered and enabled: index # 0 of a held group
Selectable ==
    UNION {{KeyOf(duplicates[i].id, duplicates[i].files[j]) :
               j \in 2..Len(duplicates[i].files)} : i \in 1..Len(duplicates)}

toggleDuplicateSelection(key) ==
    /\ Shown
    /\ key \in Selectable
    /\ selectedDuplicates' =
          IF key \in selectedDuplicates
          THEN selectedDuplicates \ {key}
          ELSE selectedDuplicates \cup {key}
    /\ last' = Other
    /\ UNCHANGED <<envVars, qtVars, shown, orgVars, foVars, recentActivity, present, user, isLoading, activeTab, duplicates,
                   ddIsScanning, scanPath, scanProgress, timerLeaked, inflight>>

\* deleteDuplicates up to its await: the Delete Selected button is rendered
\* when a group is held and enabled when the selection is not empty
deleteDuplicates ==
    /\ Shown
    /\ duplicates # <<>>
    /\ selectedDuplicates # {}
    /\ CanSend
    /\ LET files == filesToDelete(duplicates, selectedDuplicates)
       IN  IF files = {}
           THEN /\ UNCHANGED inflight
                /\ last' = Other
           ELSE /\ Send(Req("deleteDuplicateFiles", "", files, user))
                /\ last' = Did("deleteDuplicates", files)
    /\ UNCHANGED <<envVars, qtVars, shown, orgVars, foVars, recentActivity, present, user, isLoading, activeTab, ddVars>>

\* setDuplicates(prev => prev.map(... files.filter(not deleted) ...)
\*                        .filter(duplicate => duplicate.files.length > 1))
KeepGroupWrong(d) == Len(d.files) > 0
KeepGroup(d) == Len(d.files) > 1

RECURSIVE RemoveDeleted(_, _)
RemoveDeleted(dups, deleted) ==
    IF dups = <<>> THEN <<>>
    ELSE LET d == [Head(dups) EXCEPT !.files = FilterSeq(@, deleted)]
         IN  (IF KeepGroup(d) THEN <<d>> ELSE <<>>)
                 \o RemoveDeleted(Tail(dups), deleted)

\* engine, 4.6 executeDeletions: the files are removed; one already gone is
\* a no-op
executeDeletions(files) == present \ files

\* deleteDuplicates after its await, result.success true: 10 XP per file
deleteResolved ==
    \E r \in Pending("deleteDuplicateFiles") :
        /\ Settle(r)
        /\ present' = executeDeletions(r.files)
        /\ LET xpGained == Cardinality(r.files) * 10
           IN  user' = updateUserData(user, [xp |-> r.u.xp + xpGained,
                                             totalXp |-> r.u.totalXp + xpGained])
        /\ IF r.live
           THEN /\ duplicates' = RemoveDeleted(duplicates, r.files)
                /\ selectedDuplicates' = {}
           ELSE UNCHANGED <<duplicates, selectedDuplicates>>
        /\ last' = Did(IF r.live THEN "deleteResolved" ELSE "deleteResolvedDead",
                       r.files)
        /\ UNCHANGED <<envVars, qtVars, shown, orgVars, foVars, recentActivity, isLoading, activeTab, ddIsScanning, scanPath,
                       scanProgress, timerLeaked>>

\* deleteDuplicates after its await, the request rejected or result.success
\* not true: nothing is changed
deleteFailed ==
    \E r \in Pending("deleteDuplicateFiles") :
        /\ Settle(r)
        /\ last' = Did("deleteFailed", r.files)
        /\ UNCHANGED <<envVars, qtVars, shown, orgVars, foVars, recentActivity, present, user, isLoading, activeTab, ddVars>>

\* ---------------------------------------------------------- FileOrganizer
OrganizerShown == ~isLoading /\ activeTab = "organizer"

\* the quick folders that are clicked (two of quickFolders) and the texts
\* the folder field is given
QuickFolderClicks == {"downloads", "desktop"}
FolderTexts == {"", "downloads"}

ScanReq(path, chained) ==
    [Req("scanFolder", path, NoFiles, defaultUser) EXCEPT !.chained = chained]

\* onChange of the folder field
setSelectedFolder(p) ==
    /\ OrganizerShown
    /\ p \in FolderTexts \ {selectedFolder}
    /\ selectedFolder' = p
    /\ last' = Other
    /\ UNCHANGED <<envVars, qtVars, shown, orgVars, present, user, isLoading, activeTab,
                   ddVars, scanResults, foIsScanning, isOrganizing,
                   organizationRules, requestedFolder, recentActivity,
                   inflight>>

\* the Scan Folder button, disabled without a folder and while isScanning:
\* scanFolder(selectedFolder) up to its await
scanFolderClicked ==
    /\ OrganizerShown
    /\ selectedFolder # ""
    /\ ~foIsScanning
    /\ CanSend
    /\ foIsScanning' = TRUE
    /\ requestedFolder' = selectedFolder
    /\ Send(ScanReq(selectedFolder, FALSE))
    /\ last' = Other
    /\ UNCHANGED <<envVars, qtVars, shown, orgVars, present, user, isLoading, activeTab,
                   ddVars, selectedFolder, scanResults, isOrganizing,
                   organizationRules, recentActivity>>

\* handleQuickFolder: a quick-access button, never disabled
handleQuickFolder(folderPath) ==
    /\ OrganizerShown
    /\ CanSend
    /\ selectedFolder' = folderPath
    /\ foIsScanning' = TRUE
    /\ requestedFolder' = folderPath
    /\ Send(ScanReq(folderPath, FALSE))
    /\ last' = Other
    /\ UNCHANGED <<envVars, qtVars, shown, orgVars, present, user, isLoading, activeTab,
                   ddVars, scanResults, isOrganizing, organizationRules,
                   recentActivity>>

\* scanFolder after its await, resolved: setScanResults, then the finally;
\* a scan awaited by organizeFiles ends that handler too
scanFolderResolved ==
    \E r \in Pending("scanFolder") :
        /\ Settle(r)
        /\ IF r.live
           THEN /\ scanResults' = scan(tree, r.path)
                /\ foIsScanning' = FALSE
                /\ isOrganizing' = IF r.chained THEN FALSE ELSE isOrganizing
           ELSE UNCHANGED <<scanResults, foIsScanning, isOrganizing>>
        /\ last' = Other
        /\ UNCHANGED <<envVars, qtVars, shown, orgVars, present, user, isLoading, activeTab,
                       ddVars, selectedFolder, organizationRules, requestedFolder,
                       recentActivity>>

\* scanFolder after its await, rejected: the catch and the finally
scanFolderRejected ==
    \E r \in Pending("scanFolder") :
        /\ Settle(r)
        /\ IF r.live
           THEN /\ foIsScanning' = FALSE
                /\ isOrganizing' = IF r.chained THEN FALSE ELSE isOrganizing
           ELSE UNCHANGED <<foIsScanning, isOrganizing>>
        /\ last' = Other
        /\ UNCHANGED <<envVars, qtVars, shown, orgVars, present, user, isLoading, activeTab,
                       ddVars, selectedFolder, scanResults, organizationRules,
                       requestedFolder, recentActivity>>

\* setOrganizationRules(prev => ({...prev, [fileType]: enabled}))
RuleKeyWrong(fileType) == Ext(1)
RuleKey(fileType) == fileType
WithRule(prev, fileType, enabled) ==
    [c \in DOMAIN prev \cup {RuleKey(fileType)} |->
        IF c = RuleKey(fileType) THEN enabled ELSE prev[c]]

\* the checkbox organizationRules[type] || false
RuleChecked(rules, type) == type \in DOMAIN rules /\ rules[type]

\* updateOrganizationRule from the toggle of a type of the scan results
updateOrganizationRule(fileType) ==
    /\ OrganizerShown
    /\ scanResults # Null
    /\ fileType \in scanResults.fileTypes
    /\ organizationRules' =
          WithRule(organizationRules, fileType,
                   ~RuleChecked(organizationRules, fileType))
    /\ last' = Other
    /\ UNCHANGED <<envVars, qtVars, shown, orgVars, present, user, isLoading, activeTab,
                   ddVars, selectedFolder, scanResults, foIsScanning, isOrganizing,
                   requestedFolder, recentActivity, inflight>>

\* organizeFiles up to its await: the button is rendered with scan results
\* and disabled while isOrganizing or when no rule is enabled
organizeFiles ==
    /\ OrganizerShown
    /\ scanResults # Null
    /\ ~isOrganizing
    /\ \E c \in DOMAIN organizationRules : organizationRules[c]
    /\ CanSend
    /\ isOrganizing' = TRUE
    /\ Send([Req("organizeFiles", selectedFolder, NoFiles, user)
                EXCEPT !.rules = organizationRules])
    /\ last' = [op |-> "organizeFiles",
                arg |-> [path |-> selectedFolder, rules |-> organizationRules],
                before |-> tree]
    /\ UNCHANGED <<envVars, qtVars, shown, orgVars, present, user, isLoading, activeTab,
                   ddVars, selectedFolder, scanResults, foIsScanning,
                   organizationRules, requestedFolder, recentActivity>>

\* organizeFiles after its await, result.success true: 5 XP per file, then
\* await scanFolder(selectedFolder); the engine plans on a snapshot and
\* executes on the tree as it is then
organizeResolved ==
    \E r \in Pending("organizeFiles") :
        \E mid \in MidTrees(tree) :
            LET plan == planOrganization(tree, r.path, r.rules)
                run == execute(plan, mid)
                xpGained == run.succeeded * 5
            IN  /\ inflight' = (inflight (-) SetToBag({r}))
                                  (+) SetToBag({[ScanReq(IF r.live THEN r.path
                                                         ELSE "(unread)", TRUE)
                                                   EXCEPT !.live = r.live]})
                /\ foIsScanning' = IF r.live THEN TRUE ELSE foIsScanning
                /\ requestedFolder' = IF r.live THEN r.path ELSE requestedFolder
                /\ tree' = run.tree
                /\ overwritten' = overwritten \cup run.lost
                /\ user' = updateUserData(user, [xp |-> r.u.xp + xpGained,
                                                 totalXp |-> r.u.totalXp + xpGained])
                /\ last' = [op |-> "organizeResolved",
                            arg |-> [path |-> r.path, rules |-> r.rules,
                                     snapshot |-> tree, plan |-> plan,
                                     errors |-> run.errors,
                                     succeeded |-> run.succeeded],
                            before |-> mid]
                /\ UNCHANGED <<envVars, qtVars, shown, present, isLoading, activeTab, ddVars,
                               selectedFolder, scanResults, isOrganizing,
                               organizationRules, recentActivity>>

\* organizeFiles after its await, rejected or result.success not true: only
\* the finally runs; and the slip that clears the flag in the try alone
organizeFailedWrong ==
    \E r \in Pending("organizeFiles") :
        /\ Settle(r)
        /\ last' = [op |-> "organizeFailed", arg |-> NoFiles, before |-> <<>>]
        /\ UNCHANGED <<envVars, qtVars, shown, orgVars, present, user, isLoading,
                       activeTab, ddVars, foVars, recentActivity>>
organizeFailed ==
    \E r \in Pending("organizeFiles") :
        /\ Settle(r)
        /\ isOrganizing' = IF r.live THEN FALSE ELSE isOrganizing
        /\ last' = [op |-> "organizeFailed", arg |-> NoFiles, before |-> <<>>]
        /\ UNCHANGED <<envVars, qtVars, shown, orgVars, present, user, isLoading, activeTab,
                       ddVars, selectedFolder, scanResults, foIsScanning,
                       organizationRules, requestedFolder, recentActivity>>

\* -------------------------------------------------------------- Dashboard
DashboardShown == ~isLoading /\ activeTab = "dashboard"

\* quickActions: what each one requests and the xp it is worth
quickActions ==
    {[request |-> "quickSortFolder", path |-> "downloads", xp |-> 50],
     [request |-> "scanDuplicates", path |-> scanDuplicatesPath(""), xp |-> 30],
     [request |-> "quickSortFolder", path |-> "desktop", xp |-> 40]}

\* handleQuickAction up to its await; the buttons are never disabled
handleQuickAction(action) ==
    /\ DashboardShown
    /\ CanSend
    /\ Send([Req("quickAction", action.path, NoFiles, user)
                EXCEPT !.xp = action.xp,
                       !.rules = IF action.request = "quickSortFolder"
                                 THEN AllRules ELSE NoRules])
    /\ last' = Other
    /\ UNCHANGED <<envVars, qtVars, shown, orgVars, foVars, present, user, isLoading,
                   activeTab, ddVars, recentActivity>>

\* [entry, ...prev.slice(0, 4)]
Prepend(entry, prev) ==
    <<entry>> \o SubSeq(prev, 1, Min(4, Len(prev)))

\* handleQuickAction after its await, result.success true; a quick sort
\* organizes the folder with every category enabled
quickActionResolved ==
    \E r \in Pending("quickAction") :
        LET run == execute(planOrganization(tree, r.path, r.rules), tree)
        IN  /\ Settle(r)
            /\ tree' = run.tree
            /\ overwritten' = overwritten \cup run.lost
            /\ user' = updateUserData(user, [xp |-> r.u.xp + r.xp,
                                             totalXp |-> r.u.totalXp + r.xp])
            /\ recentActivity' =
                  IF r.live THEN Prepend(r.xp, recentActivity) ELSE recentActivity
            /\ last' = [op |-> "quickActionResolved", arg |-> r.xp, before |-> <<>>]
            /\ UNCHANGED <<envVars, qtVars, shown, foVars, present, isLoading, activeTab,
                           ddVars>>

\* handleQuickAction after its await, rejected or result.success not true
quickActionFailed ==
    \E r \in Pending("quickAction") :
        /\ Settle(r)
        /\ last' = [op |-> "quickActionFailed", arg |-> NoFiles, before |-> <<>>]
        /\ UNCHANGED <<envVars, qtVars, shown, orgVars, foVars, present, user, isLoading,
                       activeTab, ddVars, recentActivity>>

\* ------------------------------------------------------------------- Next
\* the engine requests among the kinds of request
EngineKinds == {"scanFolder", "organizeFiles", "scanDuplicates",
                "deleteDuplicateFiles", "quickAction"}

AppSteps ==
    \/ loadUserData
    \/ \E t \in Tabs : setActiveTab(t)

DuplicateDetectorSteps ==
    \/ \E p \in TextPaths : setScanPath(p)
    \/ \E p \in quickScanOptions \cup TextPaths : scanForDuplicates(p)
    \/ scanDuplicatesResolved
    \/ scanDuplicatesRejected
    \/ \E k \in Files \X Files : toggleDuplicateSelection(k)
    \/ deleteDuplicates
    \/ deleteResolved
    \/ deleteFailed

FileOrganizerSteps ==
    \/ \E p \in FolderTexts : setSelectedFolder(p)
    \/ scanFolderClicked
    \/ \E p \in QuickFolderClicks : handleQuickFolder(p)
    \/ scanFolderResolved
    \/ scanFolderRejected
    \/ \E c \in CategoryNames : updateOrganizationRule(c)
    \/ organizeFiles
    \/ organizeResolved
    \/ organizeFailed

DashboardSteps ==
    \/ \E a \in quickActions : handleQuickAction(a)
    \/ quickActionResolved
    \/ quickActionFailed

\* the whole front end, on one tree
Next == AppSteps \/ DuplicateDetectorSteps \/ FileOrganizerSteps \/ DashboardSteps
Spec == Init /\ [][Next]_vars

\* the duplicate detector on every tree of files
NextDuplicates == AppSteps \/ DuplicateDetectorSteps
SpecDuplicates == InitDuplicates /\ [][NextDuplicates]_vars

\* the dashboard and then the file organizer, on every start tree: the
\* dashboard is shown first and left once for the organizer tab
NextOrganizer ==
    \/ loadUserData
    \/ setActiveTab("organizer")
    \/ FileOrganizerSteps
    \/ DashboardSteps
SpecOrganizer == InitOrganizer /\ [][NextOrganizer]_vars

\* ------------------------------------------- getTotalWastedSpace on its own
\* the sequences without repetition over the files in S
RECURSIVE FileSeqs(_)
FileSeqs(S) ==
    {<<>>} \cup UNION {{<<f>> \o t : t \in FileSeqs(S \ {f})} : f \in S}

\* the lists of at most n groups with ids from 1 up
RECURSIVE GroupLists(_)
GroupLists(n) ==
    IF n = 0 THEN {<<>>}
    ELSE LET shorter == GroupLists(n - 1)
         IN  shorter \cup
             {Append(l, [id |-> n, files |-> fs]) :
                 l \in {x \in shorter : Len(x) = n - 1}, fs \in FileSeqs(Files)}

InitWaste ==
    /\ size = [f \in Files |-> ((f - 1) % MaxSize) + 1]
    /\ hash = [f \in Files |-> 1]
    /\ mtime = [f \in Files |-> 1]
    /\ tieBreak = "lexical"
    /\ present = Files
    /\ user = defaultUser
    /\ isLoading = FALSE
    /\ activeTab = "duplicates"
    /\ duplicates \in GroupLists(MaxGroups)
    /\ ddIsScanning = FALSE
    /\ scanPath = ""
    /\ selectedDuplicates = {}
    /\ scanProgress = 0
    /\ timerLeaked = FALSE
    /\ OneTree
    /\ overwritten = {}
    /\ selectedFolder = ""
    /\ scanResults = Null
    /\ foIsScanning = FALSE
    /\ isOrganizing = FALSE
    /\ organizationRules = NoRules
    /\ requestedFolder = ""
    /\ recentActivity = <<>>
    /\ quests = NoQuests
    /\ activeCategory = "daily"
    /\ qtIsLoading = TRUE
    /\ rpIsLoading = TRUE
    /\ inflight = EmptyBag
    /\ shown = NotShown
    /\ last = Other

\* the results header renders getTotalWastedSpace()
showWastedSpace ==
    /\ ~shown.done
    /\ shown' = [done |-> TRUE, value |-> getTotalWastedSpace(duplicates)]
    /\ UNCHANGED <<envVars, qtVars, present, user, isLoading, activeTab, ddVars, orgVars,
                   foVars, recentActivity, inflight, last>>

NextWaste == showWastedSpace

SpecWaste == InitWaste /\ [][NextWaste]_vars

\* ------------------------------------------------------ classify on its own
\* the extensions of the table and some that are listed nowhere (a FileRecord's
\* extension is lowercase and may be empty)
Unlisted == {"", ".xyz", ".bak", ".log", ".md"}
Extensions == UNION {fileTypes[c] : c \in DOMAIN fileTypes} \cup Unlisted

\* the front end at rest on a tab, nothing requested and nothing held
AtRest(tab) ==
    /\ OneFiles
    /\ OneTree
    /\ present = Files
    /\ overwritten = {}
    /\ user = defaultUser
    /\ isLoading = FALSE
    /\ activeTab = tab
    /\ duplicates = <<>>
    /\ ddIsScanning = FALSE
    /\ scanPath = ""
    /\ selectedDuplicates = {}
    /\ scanProgress = 0
    /\ timerLeaked = FALSE
    /\ selectedFolder = ""
    /\ scanResults = Null
    /\ foIsScanning = FALSE
    /\ isOrganizing = FALSE
    /\ organizationRules = NoRules
    /\ requestedFolder = ""
    /\ recentActivity = <<>>
    /\ quests = NoQuests
    /\ activeCategory = "daily"
    /\ qtIsLoading = TRUE
    /\ rpIsLoading = TRUE
    /\ inflight = EmptyBag
    /\ last = Other

InitClassify ==
    /\ AtRest("organizer")
    /\ shown \in {[done |-> FALSE, value |-> e] : e \in Extensions}

\* the engine classifies the extension it is given
showCategory ==
    /\ ~shown.done
    /\ shown' = [done |-> TRUE,
                 value |-> [ext |-> shown.value, category |-> classify(shown.value)]]
    /\ UNCHANGED <<envVars, qtVars, present, user, isLoading, activeTab, ddVars, orgVars,
                   foVars, recentActivity, inflight, last>>

NextClassify == showCategory

SpecClassify == InitClassify /\ [][NextClassify]_vars

\* ------------------------------------- the duplicate detector with its timer
\* the detector shown on the one tree of three copies, with the interval
\* callback among its steps
InitProgress == AtRest("duplicates") /\ shown = NotShown

NextProgress == DuplicateDetectorSteps \/ progressTick

SpecProgress == InitProgress /\ [][NextProgress]_vars

\* ---------------------------------------------- the API client on its own
\* how a fetch may end: a JSON body of an ok response, a response that is not
\* ok, a fetch that rejects, a body that is not JSON
Outcomes == {"ok", "notOk", "fetchRejected", "badJson"}
\* the bodies an ok response may carry
Payloads == {"body A", "body B"}

\* APIService.request: the parsed body, or the error thrown again; and the
\* slip that leaves out the check of response.ok
requestWrong(outcome, payload) ==
    IF outcome \in {"ok", "notOk"} THEN [kind |-> "value", value |-> payload]
    ELSE [kind |-> "error", value |-> outcome]
request(outcome, payload) ==
    IF outcome = "ok" THEN [kind |-> "value", value |-> payload]
    ELSE [kind |-> "error", value |-> outcome]

\* the operations that catch, and the value each returns from its catch
ReadOps == {"getUserData", "getUserStats", "getQuests", "getTodaysQuests",
            "getBadges", "getAchievements", "getRecentActivity"}
\* the operations that only await this.request
PlainOps == {"updateUserData", "completeQuest", "scanFolder", "organizeFiles",
             "quickSortFolder", "scanDuplicates", "deleteDuplicateFiles",
             "addActivity"}
Fallback(op) ==
    CASE op = "getUserData" -> [level |-> 1, xp |-> 0, totalXp |-> 0, streak |-> 0,
                                badges |-> <<>>, completedQuests |-> 0]
      [] op = "getUserStats" -> [filesOrganized |-> 0, duplicatesRemoved |-> 0,
                                 questsCompleted |-> 0]
      [] op = "getQuests" -> [daily |-> <<>>, weekly |-> <<>>, achievements |-> <<>>]
      [] op = "getTodaysQuests" -> <<>>
      [] op = "getBadges" -> "the eight default badges"
      [] op = "getAchievements" -> "the five default achievements"
      [] op = "getRecentActivity" -> <<>>

\* try { return await this.request(...) } catch (error) { return <fallback> },
\* and the slip that lets the error through
CaughtWrong(op, resp) == resp
Caught(op, resp) ==
    IF resp.kind = "error" THEN [kind |-> "value", value |-> Fallback(op)] ELSE resp

\* an operation of APIService, given how its fetch ends
Call(op, outcome, payload) ==
    IF op \in ReadOps THEN Caught(op, request(outcome, payload))
    ELSE request(outcome, payload)

InitCalls ==
    /\ AtRest("dashboard")
    /\ shown \in {[done |-> FALSE, value |-> [op |-> o, outcome |-> oc, payload |-> p]] :
                     o \in ReadOps \cup PlainOps, oc \in Outcomes, p \in Payloads}

\* the operation is called and settles
showCall ==
    /\ ~shown.done
    /\ shown' = [done |-> TRUE,
                 value |-> [op |-> shown.value.op, outcome |-> shown.value.outcome,
                            payload |-> shown.value.payload,
                            result |-> Call(shown.value.op, shown.value.outcome,
                                            shown.value.payload)]]
    /\ UNCHANGED <<envVars, qtVars, present, user, isLoading, activeTab, ddVars, orgVars,
                   foVars, recentActivity, inflight, last>>

NextCalls == showCall

SpecCalls == InitCalls /\ [][NextCalls]_vars

\* ----------------------------------------------------------- QuestTracker
QuestTrackerShown == ~isLoading /\ activeTab = "quests"

Categories == {"daily", "weekly", "achievements"}
Quest(id, status) == [id |-> id, status |-> status, completedAt |-> ""]
\* the bodies the server may answer getQuests with: an id may occur in two
\* categories, and twice in one
ServerQuests ==
    {[daily |-> <<Quest(1, "available"), Quest(2, "in_progress")>>,
      weekly |-> <<Quest(1, "available"), Quest(3, "completed")>>,
      achievements |-> <<>>],
     [daily |-> <<Quest(1, "available"), Quest(1, "in_progress")>>,
      weekly |-> <<>>,
      achievements |-> <<Quest(2, "available")>>]}
\* the results of a completion that succeeded: newLevel 0 and newBadges <<>>
\* stand for a result without that field
QuestResults ==
    {[xpGained |-> 10, newLevel |-> l, newBadges |-> b] :
        l \in {0, 2}, b \in {<<>>, <<"quest badge">>}}

\* loadQuests after its await: getQuests never rejects, so setQuests and the
\* finally run
loadQuests ==
    \E r \in Pending("getQuests") :
        /\ Settle(r)
        /\ IF r.live
           THEN /\ \E oc \in Outcomes, body \in ServerQuests :
                      quests' = Call("getQuests", oc, body).value
                /\ qtIsLoading' = FALSE
           ELSE UNCHANGED <<quests, qtIsLoading>>
        /\ last' = Other
        /\ UNCHANGED <<envVars, shown, orgVars, foVars, recentActivity, present,
                       user, isLoading, activeTab, ddVars, activeCategory,
                       rpIsLoading>>

\* the category buttons
setActiveCategory(c) ==
    /\ QuestTrackerShown
    /\ ~qtIsLoading
    /\ c \in Categories \ {activeCategory}
    /\ activeCategory' = c
    /\ last' = Other
    /\ UNCHANGED <<envVars, shown, orgVars, foVars, recentActivity, present, user,
                   isLoading, activeTab, ddVars, quests, qtIsLoading, rpIsLoading,
                   inflight>>

\* the quests of the active category whose card shows a button ('Start Quest'
\* when available, 'Complete' when in_progress)
Completable ==
    {quests[activeCategory][i].id : i \in
        {j \in 1..Len(quests[activeCategory]) :
            quests[activeCategory][j].status \in {"available", "in_progress"}}}

\* completeQuest(quest.id, activeCategory) up to its await
completeQuest(questId) ==
    /\ QuestTrackerShown
    /\ ~qtIsLoading
    /\ questId \in Completable
    /\ CanSend
    /\ Send([Req("completeQuest", "", NoFiles, user)
                EXCEPT !.quest = [id |-> questId, category |-> activeCategory]])
    /\ last' = [op |-> "completeQuest",
                arg |-> [id |-> questId, category |-> activeCategory],
                before |-> quests]
    /\ UNCHANGED <<envVars, qtVars, shown, orgVars, foVars, recentActivity, present,
                   user, isLoading, activeTab, ddVars>>

\* prev[category].map(quest => quest.id === questId
\*     ? {...quest, status: 'completed', completedAt: now} : quest)
MarkCompleted(list, questId) ==
    [i \in 1..Len(list) |->
        IF list[i].id = questId
        THEN [list[i] EXCEPT !.status = "completed", !.completedAt = "now"]
        ELSE list[i]]

\* completeQuest after its await, result.success true
completeQuestResolved ==
    \E r \in Pending("completeQuest"), result \in QuestResults :
        /\ Settle(r)
        /\ quests' =
              IF r.live
              THEN [quests EXCEPT ![r.quest.category] = MarkCompleted(@, r.quest.id)]
              ELSE quests
        /\ user' = updateUserData(user,
              [xp |-> r.u.xp + result.xpGained,
               totalXp |-> r.u.totalXp + result.xpGained,
               completedQuests |-> r.u.completedQuests + 1,
               level |-> IF result.newLevel # 0 THEN result.newLevel ELSE r.u.level,
               badges |-> r.u.badges \o result.newBadges])
        /\ last' = [op |-> IF r.live THEN "completeQuestResolved"
                           ELSE "completeQuestResolvedDead",
                    arg |-> r.quest, before |-> quests]
        /\ UNCHANGED <<envVars, shown, orgVars, foVars, recentActivity, present,
                       isLoading, activeTab, ddVars, activeCategory, qtIsLoading,
                       rpIsLoading>>

\* completeQuest after its await, rejected or result.success not true: nothing
\* is changed; and the slip that marks the quest before looking at the result
completeQuestFailedWrong ==
    \E r \in Pending("completeQuest") :
        /\ Settle(r)
        /\ quests' =
              IF r.live
              THEN [quests EXCEPT ![r.quest.category] = MarkCompleted(@, r.quest.id)]
              ELSE quests
        /\ last' = [op |-> "completeQuestFailed", arg |-> r.quest, before |-> quests]
        /\ UNCHANGED <<envVars, shown, orgVars, foVars, recentActivity, present,
                       user, isLoading, activeTab, ddVars, activeCategory,
                       qtIsLoading, rpIsLoading>>
completeQuestFailed ==
    \E r \in Pending("completeQuest") :
        /\ Settle(r)
        /\ last' = [op |-> "completeQuestFailed", arg |-> r.quest, before |-> quests]
        /\ UNCHANGED <<envVars, qtVars, shown, orgVars, foVars, recentActivity,
                       present, user, isLoading, activeTab, ddVars>>

QuestTrackerSteps ==
    \/ loadQuests
    \/ \E c \in Categories : setActiveCategory(c)
    \/ \E q \in 1..3 : completeQuest(q)
    \/ completeQuestResolved
    \/ completeQuestFailed

\* ----------------------------------------------------------- RewardsPanel
\* loadRewardsData after its await: getBadges and getAchievements never
\* reject, so the finally runs after both have answered; the lists they give
\* are shown and read by no handler
loadRewardsData ==
    \E r \in Pending("loadRewardsData") :
        /\ Settle(r)
        /\ rpIsLoading' = IF r.live THEN FALSE ELSE rpIsLoading
        /\ last' = Other
        /\ UNCHANGED <<envVars, shown, orgVars, foVars, recentActivity, present,
                       user, isLoading, activeTab, ddVars, quests, activeCategory,
                       qtIsLoading>>

RewardsPanelSteps == loadRewardsData

\* ------------------------------------------ every component, mounted once
\* the app loads on the dashboard and one tab is opened from it, on the one
\* tree of files
leaveDashboard == activeTab = "dashboard" /\ \E t \in Navigation : setActiveTab(t)

NextMounted ==
    \/ loadUserData
    \/ leaveDashboard
    \/ DashboardSteps
    \/ QuestTrackerSteps
    \/ FileOrganizerSteps
    \/ DuplicateDetectorSteps
    \/ RewardsPanelSteps

SpecMounted == Init /\ [][NextMounted]_vars

\* ------------------------------------- the busy flags, every request settling
\* the components that have a busy flag, each opened once from the dashboard;
\* the folder is chosen with the quick-access buttons, its text is not edited
NextBusy ==
    \/ loadUserData
    \/ leaveDashboard
    \/ QuestTrackerSteps
    \/ scanFolderClicked
    \/ \E p \in QuickFolderClicks : handleQuickFolder(p)
    \/ scanFolderResolved
    \/ scanFolderRejected
    \/ \E c \in CategoryNames : updateOrganizationRule(c)
    \/ organizeFiles
    \/ organizeResolved
    \/ organizeFailed
    \/ DuplicateDetectorSteps
    \/ RewardsPanelSteps

\* a request of this kind that a mounted component awaits settles
Settles(A, kind, chained) ==
    /\ A
    /\ \E r \in Pending(kind) :
          /\ r.live
          /\ r.chained = chained
          /\ CopiesIn(r, inflight') < CopiesIn(r, inflight)

\* every request eventually settles: of each kind of request that stays
\* pending, one is answered (at most one organize request and one duplicate
\* scan are pending, and either answer removes it: a request that stays
\* pending could fail)
EveryRequestSettles ==
    /\ WF_vars(loadUserData)
    /\ WF_vars(loadQuests)
    /\ WF_vars(loadRewardsData)
    /\ WF_vars(scanDuplicatesRejected)
    /\ WF_vars(Settles(scanFolderResolved \/ scanFolderRejected,
                       "scanFolder", FALSE))
    /\ WF_vars(Settles(scanFolderResolved \/ scanFolderRejected,
                       "scanFolder", TRUE))
    /\ WF_vars(organizeFailed)

SpecBusy == Init /\ [][NextBusy]_vars /\ EveryRequestSettles


\* ----------------------------------------------------------------- claims

\* C2 (as claimed): the paths deleteDuplicates sends never include the first
\* (Original) file of a group that is held when they are sent.
C2_CanonicalNeverSent ==
    last.op = "deleteDuplicates" => last.arg \cap Canonicals(duplicates) = {}

\* C3: when deleteDuplicates succeeds for files that are non-first members of
\* the held groups, getTotalWastedSpace drops by exactly the sum of their
\* sizes, and every group still held keeps its first file.
C3_DeletionFreesExactly ==
    [][(last'.op = "deleteResolved" /\ last'.arg \subseteq NonCanonicals(duplicates))
        => /\ getTotalWastedSpace(duplicates')
                = getTotalWastedSpace(duplicates) - SumSize(last'.arg)
           /\ Canonicals(duplicates') \subseteq Canonicals(duplicates)
           /\ last'.arg \cap Canonicals(duplicates) = {}]_vars

\* C3 witness: a successful deletion of a non-first member of a held group of
\* three has been applied and the group, now of two, is still held.
C3_Witness ==
    /\ last.op = "deleteResolved"
    /\ last.arg # {}
    /\ last.arg \subseteq NonCanonicals(last.before)
    /\ duplicates # <<>>
    /\ getTotalWastedSpace(duplicates) > 0

\* the sum of size over the places (group, index) of a set
RECURSIVE SumAt(_, _)
SumAt(dups, places) ==
    IF places = {} THEN 0
    ELSE LET p == CHOOSE x \in places : TRUE
         IN  size[dups[p[1]].files[p[2]]] + SumAt(dups, places \ {p})

\* C4: for every list of groups, getTotalWastedSpace is the sum of the sizes
\* of the files at every place but the first of each group.
C4_WasteSkipsFirst ==
    shown.done =>
        shown.value =
            SumAt(duplicates,
                  {<<i, j>> \in (1..Len(duplicates)) \X (2..NFiles) :
                      j <= Len(duplicates[i].files)})

\* C4 witness: the waste of two groups, one of them of three files, is shown.
C4_Witness ==
    /\ shown.done
    /\ Len(duplicates) = 2
    /\ Len(duplicates[1].files) = 3
    /\ Len(duplicates[2].files) = 2
    /\ shown.value > 0

\* C5: every held duplicate group has at least two files.
C5_GroupsHaveTwo ==
    \A i \in 1..Len(duplicates) : Len(duplicates[i].files) >= 2

\* C5 witness: a deletion left one file of a held group of two, and the group
\* was dropped.
C5_Witness ==
    /\ last.op = "deleteResolved"
    /\ \E i \in 1..Len(last.before) :
          /\ Len(last.before[i].files) = 2
          /\ last.before[i].files[2] \in last.arg
          /\ last.before[i].files[1] \notin last.arg
    /\ duplicates = <<>>

\* C6: no held group has two files of different sizes.
C6_GroupSameSize ==
    \A i \in 1..Len(duplicates) :
        \A f, g \in SeqToSet(duplicates[i].files) : size[f] = size[g]

\* C6 witness: a scan result is held whose group shares its content hash with
\* a scanned file of another size, which is in no group.
C6_Witness ==
    /\ last.op = "scanDuplicatesResolved"
    /\ \E i \in 1..Len(duplicates) :
          \E f \in SeqToSet(duplicates[i].files), g \in present :
              /\ hash[f] = hash[g]
              /\ size[f] # size[g]
              /\ g \notin HeldFiles(duplicates)

C1_OneRequestInFlight ==
    SumCopies({r \in BagToSet(inflight) : r.kind \in EngineKinds}) <= 1

\* C8: organize never overwrites a file its plan did not place: no move ever
\* destroys such a file, and a planned move whose plain destination is taken
\* in the snapshot goes to a free disambiguated name.
C8_NeverOverwrites ==
    /\ overwritten = {}
    /\ last.op = "organizeResolved" =>
          \A f \in DOMAIN last.arg.plan :
              LET pm == last.arg.plan[f]
                  t == last.arg.snapshot
              IN  /\ pm.action \in {"skip-disabled-category", "no-op", "move",
                                    "skip-collision"}
                  /\ pm.action = "move" =>
                        /\ ~Occupied(t, f, pm.destination)
                        /\ Occupied(t, f, Place(pm.destination.dir, pm.source.suf))
                              => pm.destination.suf # pm.source.suf
                  /\ (tree[f] # last.before[f]) =>
                        /\ pm.action = "move"
                        /\ tree[f] = pm.destination
                        /\ ~Occupied(last.before, f, pm.destination)

\* C8 witness: an organize moved a file to a disambiguated name beside the
\* file of the same name that was already there, and skipped another on a
\* collision found at execution.
C8_Witness ==
    /\ last.op = "organizeResolved"
    /\ \E f \in DOMAIN last.arg.plan :
          /\ last.arg.plan[f].action = "move"
          /\ last.arg.plan[f].destination.suf # last.arg.plan[f].source.suf
          /\ tree[f] = last.arg.plan[f].destination
          /\ \E g \in OrgFiles \ {f} :
                /\ SameName(g, f)
                /\ tree[g] = Place(tree[f].dir, 0)
                /\ last.before[g] = tree[g]
    /\ last.arg.errors # {}

\* C9: an organize moves only files whose category is enabled in the rules
\* sent: a file whose category is disabled in them or absent from them stays
\* where it is and is not among the errors.
C9_DisabledLeftAlone ==
    last.op = "organizeResolved" =>
        \A f \in OrgFiles :
            (Category(f) \notin DOMAIN last.arg.rules
                \/ last.arg.rules[Category(f)] = FALSE)
            => /\ tree[f] = last.before[f]
               /\ f \notin last.arg.errors

\* C9 witness: an organize moved a file of an enabled category and left a
\* file of the folder whose category the rules disable.
C9_Witness ==
    /\ last.op = "organizeResolved"
    /\ last.arg.succeeded > 0
    /\ \E f \in DOMAIN last.arg.plan :
          /\ Category(f) \in DOMAIN last.arg.rules
          /\ last.arg.rules[Category(f)] = FALSE
          /\ tree[f] = last.before[f]
          /\ tree[f].dir = "top"

\* C10: every key of the rules held by the organizer, and of the rules sent
\* with a pending organize request, is one of the ten category names.
C10_RuleKeysAreCategories ==
    /\ DOMAIN organizationRules \subseteq CategoryNames
    /\ \A r \in Pending("organizeFiles") : DOMAIN r.rules \subseteq CategoryNames

\* C10 witness: an organize request is pending whose rules have two keys, one
\* enabled and one disabled after toggles.
C10_Witness ==
    \E r \in Pending("organizeFiles") :
        /\ Cardinality(DOMAIN r.rules) = 2
        /\ \E c \in DOMAIN r.rules : ~r.rules[c]

\* C11: classification is a function of the extension alone: the table lists
\* no extension under two categories, an extension the table lists is given
\* the category it is listed under, and one listed nowhere is given "Other".
C11_ClassifyByTable ==
    /\ \A c, d \in DOMAIN fileTypes : c # d => fileTypes[c] \cap fileTypes[d] = {}
    /\ shown.done =>
          LET e == shown.value.ext
              cat == shown.value.category
          IN  /\ \A c \in DOMAIN fileTypes : e \in fileTypes[c] <=> cat = c
              /\ (\A c \in DOMAIN fileTypes : e \notin fileTypes[c]) <=> cat = "Other"

\* C11 witness: an extension of the table has been classified under the one
\* category that lists it.
C11_Witness ==
    /\ shown.done
    /\ shown.value.ext = ".csv"
    /\ shown.value.category = "Spreadsheets"

\* C12 (as claimed): a delete that succeeds for files that are all deleted
\* already changes neither the groups held, nor the selection, nor the user's
\* XP.
C12_RepeatedDeleteIsNoOp ==
    [][(/\ last'.op \in {"deleteResolved", "deleteResolvedDead"}
        /\ last'.arg \cap present = {})
        => /\ duplicates' = duplicates
           /\ selectedDuplicates' = selectedDuplicates
           /\ user' = user]_vars

\* C13 (as claimed): while no duplicate-scan request is in flight and none is
\* started, scanProgress does not change.
C13_ProgressStopsWhenSettled ==
    [][(/\ Pending("scanDuplicates") = {}
        /\ \A r \in BagToSet(inflight') : r.kind # "scanDuplicates")
        => scanProgress' = scanProgress]_vars

\* C14 (as claimed): after every step scanProgress is within 0..100 and at
\* most 90 while the scan request is in flight; it decreases only when a scan
\* is started, and it becomes 100 only by the success of the scan request.
C14_ProgressIncremental ==
    [][/\ scanProgress' \in 0..100
       /\ (\E r \in BagToSet(inflight') : r.kind = "scanDuplicates")
             => (scanProgress' <= 90)
       /\ (scanProgress' < scanProgress)
             => (ddIsScanning' /\ \E r \in BagToSet(inflight') :
                                      r.kind = "scanDuplicates")
       /\ (scanProgress' = 100 /\ scanProgress # 100)
             => (last'.op = "scanDuplicatesResolved")]_vars

\* C15: a read operation of the API client never ends in an error: it gives
\* the server's body when the request succeeds and its fixed default value
\* whenever the request fails.
C15_ReadsNeverFail ==
    (shown.done /\ shown.value.op \in ReadOps) =>
        /\ shown.value.result.kind = "value"
        /\ shown.value.outcome = "ok" => shown.value.result.value = shown.value.payload
        /\ shown.value.outcome # "ok" =>
              shown.value.result.value = Fallback(shown.value.op)

\* C15 witness: getUserData was called, the response was not ok, and the
\* default user was returned.
C15_Witness ==
    /\ shown.done
    /\ shown.value.op = "getUserData"
    /\ shown.value.outcome = "notOk"
    /\ shown.value.result.kind = "value"
    /\ shown.value.result.value.xp = 0

\* C16 (as claimed): every folder-scan, organize and duplicate-scan request
\* in flight carries a path that is not empty.
C16_PathNotEmpty ==
    \A r \in BagToSet(inflight) :
        r.kind \in {"scanFolder", "organizeFiles", "scanDuplicates"} => r.path # ""

\* C17 (as claimed): a successful deletion of duplicates raises the user's
\* xp and totalXp by 25.
C17_DeleteAwards25 ==
    [][(last'.op \in {"deleteResolved", "deleteResolvedDead"})
        => /\ user'.xp = user.xp + 25
           /\ user'.totalXp = user.totalXp + 25]_vars

\* C18 (as claimed): every key held in selectedDuplicates is the key of a
\* non-first file of a group that is held.
C18_SelectionRefersToHeld ==
    \A key \in selectedDuplicates :
        \E i \in 1..Len(duplicates) :
            /\ duplicates[i].id = key[1]
            /\ \E j \in 2..Len(duplicates[i].files) : duplicates[i].files[j] = key[2]

\* C19 (as claimed): totalXp never decreases, and every successful quick
\* action, organize and deletion raises it by exactly its gain (the xp of the
\* quick action, 5 for each file organized, 10 for each file deleted).
C19_NoXpLost ==
    [][/\ user'.totalXp >= user.totalXp
       /\ (last'.op = "quickActionResolved")
             => (user'.totalXp = user.totalXp + last'.arg)
       /\ (last'.op = "organizeResolved")
             => (user'.totalXp = user.totalXp + 5 * last'.arg.succeeded)
       /\ (last'.op \in {"deleteResolved", "deleteResolvedDead"})
             => (user'.totalXp = user.totalXp + 10 * Cardinality(last'.arg))]_vars

\* C20 (as claimed): once the results of the folder scan requested last are
\* shown, no response replaces them with the results of another scan.
C20_LatestScanShown ==
    [][(/\ scanResults # Null
        /\ scanResults.path = requestedFolder
        /\ requestedFolder' = requestedFolder
        /\ scanResults' # scanResults)
        => (scanResults' # Null /\ scanResults'.path = requestedFolder)]_vars

\* C21 (as claimed): the folder an organize request is sent for is the folder
\* of the scan results held when it is sent.
C21_OrganizesScannedFolder ==
    [][(last'.op = "organizeFiles")
        => (scanResults # Null /\ last'.arg.path = scanResults.path)]_vars

\* C22 (as claimed): in each of the two components isScanning is true exactly
\* while a scan request of the mounted component is in flight.
C22_ScanningIffPending ==
    /\ ddIsScanning <=> (\E r \in Pending("scanDuplicates") : r.live)
    /\ foIsScanning <=> (\E r \in Pending("scanFolder") : r.live)

\* C24: an operation of the API client that has no fallback gives the parsed
\* body only when the response is ok, and ends in the error of the request
\* when the status is not ok, the fetch fails or the body is not JSON.
C24_PlainOpsPropagate ==
    (shown.done /\ shown.value.op \in PlainOps) =>
        /\ shown.value.result.kind = "value" =>
              /\ shown.value.outcome = "ok"
              /\ shown.value.result.value = shown.value.payload
        /\ shown.value.outcome # "ok" =>
              shown.value.result = [kind |-> "error", value |-> shown.value.outcome]
        /\ shown.value.outcome = "ok" => shown.value.result.kind = "value"

\* C24 witness: completeQuest was called, the status was not ok, and the call
\* ended in that error.
C24_Witness ==
    /\ shown.done
    /\ shown.value.op = "completeQuest"
    /\ shown.value.outcome = "notOk"
    /\ shown.value.result.kind = "error"

\* C23: a quick action, quest completion, organize or delete request that is
\* rejected, or whose result is not a success, leaves the user (xp, totalXp,
\* level, badges, completedQuests), the quest list, the duplicate groups and
\* the selection as they were.
C23_FailuresChangeNothing ==
    [][(last'.op \in {"quickActionFailed", "completeQuestFailed",
                      "organizeFailed", "deleteFailed"})
        => /\ user' = user
           /\ quests' = quests
           /\ duplicates' = duplicates
           /\ selectedDuplicates' = selectedDuplicates]_vars

\* C23 witness: a quest completion has just failed while the quest tracker
\* shows the quest, which still has its button, and the user has no reward.
C23_Witness ==
    /\ last.op = "completeQuestFailed"
    /\ activeTab = "quests"
    /\ \E i \in 1..Len(quests[last.arg.category]) :
          /\ quests[last.arg.category][i].id = last.arg.id
          /\ quests[last.arg.category][i].status \in {"available", "in_progress"}
    /\ user.completedQuests = 0

\* C26 (as claimed): a successful completeQuest(questId, category) marks
\* exactly the quests of that id in that category completed, changes no other
\* quest and no other category, and raises completedQuests by exactly 1; a
\* completed quest stays completed and is never completed a second time.
C26_CompleteQuestExact ==
    [][/\ (last'.op = "completeQuestResolved") =>
             LET cat == last'.arg.category
                 id == last'.arg.id
             IN  /\ \A c \in Categories \ {cat} : quests'[c] = quests[c]
                 /\ Len(quests'[cat]) = Len(quests[cat])
                 /\ \A i \in 1..Len(quests[cat]) :
                       quests'[cat][i] =
                          IF quests[cat][i].id = id
                          THEN [quests[cat][i] EXCEPT !.status = "completed",
                                                      !.completedAt = "now"]
                          ELSE quests[cat][i]
                 /\ user'.completedQuests = user.completedQuests + 1
                 /\ \E i \in 1..Len(quests[cat]) :
                       /\ quests[cat][i].id = id
                       /\ quests[cat][i].status # "completed"
       /\ \A c \in Categories : \A i \in 1..Len(quests[c]) :
             (quests[c][i].status = "completed")
                => (i <= Len(quests'[c]) /\ quests'[c][i].status = "completed")]_vars

\* C25: provided every request settles, each busy flag that is set is
\* cleared again (App.isLoading, QuestTracker.isLoading, RewardsPanel.isLoading,
\* FileOrganizer.isScanning and isOrganizing, DuplicateDetector.isScanning),
\* and isOrganizing is true for as long as the organize request or the refresh
\* scan that follows its success is awaited.
C25_BusyFlagsClear ==
    /\ isLoading ~> ~isLoading
    /\ (activeTab = "quests" /\ qtIsLoading) ~> ~qtIsLoading
    /\ (activeTab = "rewards" /\ rpIsLoading) ~> ~rpIsLoading
    /\ foIsScanning ~> ~foIsScanning
    /\ isOrganizing ~> ~isOrganizing
    /\ ddIsScanning ~> ~ddIsScanning
    /\ [](\A r \in BagToSet(inflight) :
             (r.live /\ (r.kind = "organizeFiles"
                           \/ (r.kind = "scanFolder" /\ r.chained)))
                => isOrganizing)

\* C25 witness: an organize has succeeded and its refresh scan is awaited,
\* with isOrganizing and isScanning both set.
C25_Witness ==
    /\ isOrganizing
    /\ foIsScanning
    /\ \E r \in Pending("scanFolder") : r.live /\ r.chained

====
